---------------------------- MODULE Spec2Model ----------------------------
(***************************************************************************)
(* flag-football-stats (src/src/App.jsx): the event-sourced statistics     *)
(* engine (computeStats), the store transitions of the App component       *)
(* (roster, games, event log, selection state) and the document boundary   *)
(* (saveStore / loadStore, exportJSON / importJSON).                       *)
(*                                                                         *)
(* JavaScript values are modelled as follows.                              *)
(*  - A string is a string.  The two markers UNDEF and ABSENT stand for an *)
(*    own property whose value is undefined, and for a property the object *)
(*    does not have; both read as undefined (Read), only JSON.stringify    *)
(*    tells them apart (it writes neither, so a parsed document has        *)
(*    ABSENT where the store had UNDEF).                                   *)
(*  - An object used as a map (byId) is a function from its own keys; a    *)
(*    lookup byId[k] also finds what Object.prototype gives every plain    *)
(*    object literal (ObjectPrototypeKeys).                                *)
(*  - ts, yards and note of a StatEvent, and position / notes, are copied  *)
(*    through by every operation and read by none; they are left out.      *)
(***************************************************************************)
EXTENDS Integers, Sequences, FiniteSets, TLC

VARIABLES
  store,            \* useState<Store>: [players, games, ui]
  localStorage,     \* the document saved under STORAGE_KEY
  tab,              \* useState: "roster" | "games" | "game"; "unmounted"
                    \* once a render has thrown (React removes the tree)
  primaryPlayerId,  \* useState<Id>: the quick-log primary player
  receiverId,       \* useState<Id>: the quick-log receiver
  uidCount,         \* ids uid() has produced, per prefix (p, g, e); imports (i)
  statsByPlayer,    \* the value last returned by computeStats
  statsCalls,       \* number of computeStats calls made on demand
  lastOp            \* history: the store handler that ran last, with its argument

vars == <<store, localStorage, tab, primaryPlayerId, receiverId, uidCount,
          statsByPlayer, statsCalls, lastOp>>

---------------------------------------------------------------------------
(* Bounds of the model. *)

\* operations of one run that put new objects into the store: the calls of
\* uid() (a player, a game or an event created) and the imports, an import
\* counted twice (it brings several objects at once)
MaxGrowth == 4
\* length of the event log handed to computeStats
MaxLog == 2
\* on-demand computeStats calls on one input
MaxCalls == 2

---------------------------------------------------------------------------
(* JavaScript values. *)

UNDEF == "<undefined>"
ABSENT == "<absent>"

\* reading a property: a missing one reads as undefined
Read(v) == IF v = ABSENT THEN UNDEF ELSE v

\* ToBoolean of a string-or-undefined
Truthy(v) == v \notin {UNDEF, ABSENT, ""}

\* `{}`: an object with no own property
EmptyObject == [k \in {} |-> 0]

\* what a property lookup on a plain object literal finds without an own
\* property: the methods every object inherits from Object.prototype (functions,
\* so truthy, and extensible: a write to one of their properties succeeds)
ObjectPrototypeKeys ==
  {"constructor", "toString", "valueOf", "hasOwnProperty"}

RuleSets == {"NEXT_LEVEL", "NFL_FLAG", "FARM_LEAGUE"}

RULESET_CONFIG ==
  [NEXT_LEVEL  |-> [allowPatReturn |-> FALSE, patReturnPoints |-> 0],
   NFL_FLAG    |-> [allowPatReturn |-> FALSE, patReturnPoints |-> 0],
   FARM_LEAGUE |-> [allowPatReturn |-> TRUE,  patReturnPoints |-> 2]]

EventTypes ==
  {"PASS_ATT", "PASS_COMP", "PASS_TD", "INT_THROWN", "RUSH_ATT", "RUSH_TD",
   "REC", "REC_TD", "DEF_INT", "SACK", "FLAG_PULL", "DEF_TD", "XP_1", "XP_2",
   "PAT_RET_2"}

StatFields ==
  {"passAtt", "passComp", "passTD", "intThrown", "rushAtt", "rushTD", "rec",
   "recTD", "defInt", "sacks", "flagPulls", "defTD", "xp1", "xp2", "patRet2",
   "points"}

emptyStats == [f \in StatFields |-> 0]

uid(prefix, n) == prefix \o "_" \o ToString(n)

---------------------------------------------------------------------------
(* computeStats. *)

\* byId[pid] as a condition: an own bucket (an object, truthy) or an
\* inherited member of Object.prototype (truthy as well)
LookupTruthy(byId, pid) ==
  pid \in DOMAIN byId \/ pid \in ObjectPrototypeKeys

\* mutant of ensure: the bucket is created anew on every reference
ensureAlwaysNew(byId, pid) == (pid :> emptyStats) @@ byId

\* ensure(pid): the map after the call
ensure(byId, pid) ==
  IF LookupTruthy(byId, pid) THEN byId ELSE (pid :> emptyStats) @@ byId

\* a write through the reference ensure(pid) returned: to the own bucket, or,
\* when the lookup found an inherited member, to that shared object, which
\* is no bucket of byId
Credit(byId, pid, fields, pts) ==
  IF pid \in DOMAIN byId
    THEN [byId EXCEPT ![pid] =
            [f \in StatFields |->
               IF f = "points" THEN @[f] + pts
               ELSE IF f \in fields THEN @[f] + 1 ELSE @[f]]]
    ELSE byId

\* mutant of CreditReceiver: the receiver of a pass TD gets the reception
\* and the points, the receiving TD is not counted
CreditReceiverNoTD(byId, e, fields, pts) ==
  IF Truthy(e.receiverId)
    THEN Credit(ensure(byId, e.receiverId), e.receiverId,
                fields \ {"recTD"}, pts)
    ELSE byId

\* the secondary credit of PASS_COMP / PASS_TD
CreditReceiver(byId, e, fields, pts) ==
  IF Truthy(e.receiverId)
    THEN Credit(ensure(byId, e.receiverId), e.receiverId, fields, pts)
    ELSE byId

\* the body of `for (const e of events)`
applyEvent(byId, e) ==
  LET b == ensure(byId, e.playerId)
      p == e.playerId
  IN CASE e.type = "PASS_ATT" -> Credit(b, p, {"passAtt"}, 0)
       [] e.type = "PASS_COMP" ->
            CreditReceiver(Credit(b, p, {"passAtt", "passComp"}, 0),
                           e, {"rec"}, 0)
       [] e.type = "PASS_TD" ->
            CreditReceiver(Credit(b, p, {"passAtt", "passComp", "passTD"}, 6),
                           e, {"rec", "recTD"}, 6)
       [] e.type = "INT_THROWN" -> Credit(b, p, {"passAtt", "intThrown"}, 0)
       [] e.type = "RUSH_ATT" -> Credit(b, p, {"rushAtt"}, 0)
       [] e.type = "RUSH_TD" -> Credit(b, p, {"rushAtt", "rushTD"}, 6)
       [] e.type = "REC" -> Credit(b, p, {"rec"}, 0)
       [] e.type = "REC_TD" -> Credit(b, p, {"rec", "recTD"}, 6)
       [] e.type = "DEF_INT" -> Credit(b, p, {"defInt"}, 0)
       [] e.type = "SACK" -> Credit(b, p, {"sacks"}, 0)
       [] e.type = "FLAG_PULL" -> Credit(b, p, {"flagPulls"}, 0)
       [] e.type = "DEF_TD" -> Credit(b, p, {"defTD"}, 6)
       [] e.type = "XP_1" -> Credit(b, p, {"xp1"}, 1)
       [] e.type = "XP_2" -> Credit(b, p, {"xp2"}, 2)
       [] e.type = "PAT_RET_2" -> Credit(b, p, {"patRet2"}, 2)
       [] OTHER -> b

RECURSIVE seedBuckets(_, _)
\* for (const p of players) byId[p.id] = emptyStats();
seedBuckets(byId, players) ==
  IF players = <<>> THEN byId
  ELSE seedBuckets((Head(players).id :> emptyStats) @@ byId, Tail(players))

RECURSIVE applyEvents(_, _)
\* for (const e of events) { ... }
applyEvents(byId, events) ==
  IF events = <<>> THEN byId
  ELSE applyEvents(applyEvent(byId, Head(events)), Tail(events))

\* computeStats over a given initial byId
computeStatsFrom(byId, players, events) ==
  applyEvents(seedBuckets(byId, players), events)

\* mutant of computeStats: byId lives outside the function and keeps the
\* buckets of the call before
computeStatsKeepsById(players, events) ==
  computeStatsFrom(statsByPlayer, players, events)

computeStats(players, events) ==
  computeStatsFrom(EmptyObject, players, events)

---------------------------------------------------------------------------
(* The store and its documents.                                            *)
(*   Player   [id, name, jersey]                                           *)
(*   StatEvent [id, type, playerId, receiverId]                            *)
(*   Game     [id, opponent, dateISO, ruleSet, events]                     *)
(*   Store    [players, games, ui |-> [selectedGameId]]                    *)
(* A document is what JSON.parse gives for a text: top is its top-level    *)
(* shape ("none": no text, "unparseable": JSON.parse throws, "null",       *)
(* "scalar", "object"); a value that should be a list carries isArray.     *)

emptyStore ==
  [players |-> <<>>, games |-> <<>>, ui |-> [selectedGameId |-> ABSENT]]

\* JSON.stringify of a property value: an undefined one is not written
stringifyField(v) == IF v = UNDEF THEN ABSENT ELSE v

stringifyPlayer(p) == [p EXCEPT !.jersey = stringifyField(p.jersey)]

stringifyEvent(e) == [e EXCEPT !.receiverId = stringifyField(e.receiverId)]

stringifyGame(g) ==
  [g EXCEPT !.events =
     [isArray |-> TRUE,
      items |-> [i \in DOMAIN g.events |-> stringifyEvent(g.events[i])]]]

\* JSON.parse(JSON.stringify(store)): the document a saved or exported
\* store is read back as
stringifyStore(s) ==
  [top |-> "object",
   players |-> [isArray |-> TRUE,
                items |-> [i \in DOMAIN s.players |->
                             stringifyPlayer(s.players[i])]],
   games |-> [isArray |-> TRUE,
              items |-> [i \in DOMAIN s.games |-> stringifyGame(s.games[i])]],
   ui |-> [nullish |-> FALSE,
           selectedGameId |-> stringifyField(s.ui.selectedGameId)]]

\* a document that is no object: its property reads give undefined
nonObjectDoc(top) ==
  [top |-> top,
   players |-> [isArray |-> FALSE, items |-> <<>>],
   games |-> [isArray |-> FALSE, items |-> <<>>],
   ui |-> [nullish |-> TRUE, selectedGameId |-> ABSENT]]

saveStore(s) == stringifyStore(s)

\* the shape guards of loadStore
loadGuards(parsed) ==
  [players |-> IF parsed.players.isArray THEN parsed.players.items ELSE <<>>,
   games |-> IF parsed.games.isArray
               THEN [i \in DOMAIN parsed.games.items |->
                      LET g == parsed.games.items[i]
                      IN [g EXCEPT
                            !.ruleSet = IF Truthy(g.ruleSet) THEN g.ruleSet
                                        ELSE "NFL_FLAG",
                            !.events = IF g.events.isArray THEN g.events.items
                                       ELSE <<>>]]
               ELSE <<>>,
   ui |-> IF parsed.ui.nullish THEN [selectedGameId |-> ABSENT]
          ELSE [selectedGameId |-> parsed.ui.selectedGameId]]

\* loadStore: no text, a text JSON.parse rejects, or null (whose property
\* read throws inside the try) give the empty store
loadStore(raw) ==
  IF raw.top \in {"none", "unparseable", "null"} THEN emptyStore
  ELSE loadGuards(raw)

\* mutant of importGuards: every game gets the fallback rule set
importGuardsFallbackOnly(parsed) ==
  [players |-> IF parsed.players.isArray THEN parsed.players.items ELSE <<>>,
   games |-> IF parsed.games.isArray
               THEN [i \in DOMAIN parsed.games.items |->
                      LET g == parsed.games.items[i]
                      IN [g EXCEPT
                            !.ruleSet = "NFL_FLAG",
                            !.events = IF g.events.isArray THEN g.events.items
                                       ELSE <<>>]]
               ELSE <<>>,
   ui |-> IF parsed.ui.nullish THEN [selectedGameId |-> ABSENT]
          ELSE [selectedGameId |-> parsed.ui.selectedGameId]]

\* mutant of importGuards: a validating import that keeps only the events of
\* an enumerated type
importGuardsKnownTypes(parsed) ==
  [players |-> IF parsed.players.isArray THEN parsed.players.items ELSE <<>>,
   games |-> IF parsed.games.isArray
               THEN [i \in DOMAIN parsed.games.items |->
                      LET g == parsed.games.items[i]
                      IN [g EXCEPT
                            !.ruleSet = IF Truthy(g.ruleSet) THEN g.ruleSet
                                        ELSE "NFL_FLAG",
                            !.events = IF g.events.isArray
                                         THEN SelectSeq(g.events.items,
                                                LAMBDA e : e.type \in EventTypes)
                                         ELSE <<>>]]
               ELSE <<>>,
   ui |-> IF parsed.ui.nullish THEN [selectedGameId |-> ABSENT]
          ELSE [selectedGameId |-> parsed.ui.selectedGameId]]

\* the shape guards of importJSON
importGuards(parsed) ==
  [players |-> IF parsed.players.isArray THEN parsed.players.items ELSE <<>>,
   games |-> IF parsed.games.isArray
               THEN [i \in DOMAIN parsed.games.items |->
                      LET g == parsed.games.items[i]
                      IN [g EXCEPT
                            !.ruleSet = IF Truthy(g.ruleSet) THEN g.ruleSet
                                        ELSE "NFL_FLAG",
                            !.events = IF g.events.isArray THEN g.events.items
                                       ELSE <<>>]]
               ELSE <<>>,
   ui |-> IF parsed.ui.nullish THEN [selectedGameId |-> ABSENT]
          ELSE [selectedGameId |-> parsed.ui.selectedGameId]]

\* importJSON has no try: JSON.parse throwing, or parsed.players read on
\* null, rejects the promise before setStore
importThrows(file) == file.top \in {"unparseable", "null"}

\* the store after importJSON(file)
importJSON(s, file) == IF importThrows(file) THEN s ELSE importGuards(file)

\* exportJSON: the text of the downloaded file, as JSON.parse reads it
exportJSON(s) == stringifyStore(s)

---------------------------------------------------------------------------
(* Derived values of a render. *)

\* store.games.find((g) => g.id === store.ui.selectedGameId): index or 0
selectedGameIndex(s) ==
  LET hits == {i \in DOMAIN s.games :
                 s.games[i].id = Read(s.ui.selectedGameId)}
  IN IF hits = {} THEN 0 ELSE CHOOSE i \in hits : \A j \in hits : i <= j

\* selectedGame?.id
selectedGameIdOf(s) ==
  IF selectedGameIndex(s) = 0 THEN UNDEF
  ELSE s.games[selectedGameIndex(s)].id

\* mutant of statsOfGame: a PAT return counts only where the rule set of the
\* game allows it
statsOfGameGated(players, g) ==
  computeStats(players,
               SelectSeq(g.events,
                         LAMBDA e : e.type = "PAT_RET_2" =>
                           /\ g.ruleSet \in RuleSets
                           /\ RULESET_CONFIG[g.ruleSet].allowPatReturn))

\* the statistics displayed for a game: computeStats(store.players,
\* selectedGame.events)
statsOfGame(players, g) == computeStats(players, g.events)

\* the useMemo statsByPlayer
statsMemo(s) ==
  IF selectedGameIndex(s) = 0 THEN EmptyObject
  ELSE statsOfGame(s.players, s.games[selectedGameIndex(s)])

\* store.players[0]?.id ?? ""
firstPlayerId(s) == IF s.players = <<>> THEN "" ELSE s.players[1].id

\* the effect that fills an empty selection with the first player
selectionEffect(sel, s) ==
  IF ~Truthy(sel) /\ Truthy(firstPlayerId(s)) THEN firstPlayerId(s) ELSE sel

\* the effect that shows the game view when selectedGame?.id changes
tabEffect(t, old, new) ==
  IF selectedGameIdOf(new) # selectedGameIdOf(old)
     /\ selectedGameIndex(new) # 0
  THEN "game" ELSE t

---------------------------------------------------------------------------
(* The handlers, as functions of the store. *)

addPlayer(s, id, name, jersey) ==
  [s EXCEPT !.players =
     Append(s.players,
            [id |-> id, name |-> name,
             jersey |-> IF Truthy(jersey) THEN jersey ELSE UNDEF])]

\* mutant of deletePlayer: the cascade looks at playerId only
deletePlayerPrimaryOnly(s, id) ==
  [s EXCEPT
     !.players = SelectSeq(s.players, LAMBDA p : p.id # id),
     !.games = [i \in DOMAIN s.games |->
                  [s.games[i] EXCEPT !.events =
                     SelectSeq(s.games[i].events,
                               LAMBDA e : e.playerId # id)]]]

deletePlayer(s, id) ==
  [s EXCEPT
     !.players = SelectSeq(s.players, LAMBDA p : p.id # id),
     !.games = [i \in DOMAIN s.games |->
                  [s.games[i] EXCEPT !.events =
                     SelectSeq(s.games[i].events,
                               LAMBDA e : e.playerId # id
                                          /\ Read(e.receiverId) # id)]]]

\* mutant of addGame: the rule set picked in the form is written to every
\* game
addGameSetsAll(s, id, opp, dateISO, ruleSet) ==
  [s EXCEPT
     !.games = <<[id |-> id, opponent |-> opp, dateISO |-> dateISO,
                  ruleSet |-> ruleSet, events |-> <<>>]>>
               \o [i \in DOMAIN s.games |->
                     [s.games[i] EXCEPT !.ruleSet = ruleSet]],
     !.ui = [selectedGameId |-> id]]

addGame(s, id, opp, dateISO, ruleSet) ==
  [s EXCEPT
     !.games = <<[id |-> id, opponent |-> opp, dateISO |-> dateISO,
                  ruleSet |-> ruleSet, events |-> <<>>]>> \o s.games,
     !.ui = [selectedGameId |-> id]]

openGame(s, id) == [s EXCEPT !.ui = [selectedGameId |-> id]]

\* mutant of deleteGame: the selection is left as it is
deleteGameKeepsSelection(s, id) ==
  [s EXCEPT !.games = SelectSeq(s.games, LAMBDA g : g.id # id)]

deleteGame(s, id) ==
  [s EXCEPT
     !.games = SelectSeq(s.games, LAMBDA g : g.id # id),
     !.ui = [selectedGameId |->
               IF Read(s.ui.selectedGameId) = id THEN UNDEF
               ELSE Read(s.ui.selectedGameId)]]

\* pushEvent(type, opts) with opts?.receiverId = rid, for the render's
\* selectedGame and primaryPlayerId
pushEvent(s, id, type, pid, rid) ==
  IF selectedGameIndex(s) = 0 \/ ~Truthy(pid) THEN s
  ELSE [s EXCEPT !.games =
          [i \in DOMAIN s.games |->
             IF s.games[i].id = selectedGameIdOf(s)
               THEN [s.games[i] EXCEPT !.events =
                       <<[id |-> id, type |-> type, playerId |-> pid,
                          receiverId |-> rid]>> \o s.games[i].events]
               ELSE s.games[i]]]

removeEvent(s, eventId) ==
  IF selectedGameIndex(s) = 0 THEN s
  ELSE [s EXCEPT !.games =
          [i \in DOMAIN s.games |->
             IF s.games[i].id = selectedGameIdOf(s)
               THEN [s.games[i] EXCEPT !.events =
                       SelectSeq(s.games[i].events,
                                 LAMBDA e : e.id # eventId)]
               ELSE s.games[i]]]

clearGameEvents(s) ==
  IF selectedGameIndex(s) = 0 THEN s
  ELSE [s EXCEPT !.games =
          [i \in DOMAIN s.games |->
             IF s.games[i].id = selectedGameIdOf(s)
               THEN [s.games[i] EXCEPT !.events = <<>>]
               ELSE s.games[i]]]

---------------------------------------------------------------------------
(* Inputs. *)

\* what the user types as a player name, a jersey, an opponent
NameInputs == {"", "Ann"}
JerseyInputs == {""}
OpponentInputs == {"", "Tigers"}
DateInput == "2026-01-01"

\* a type no case of the switch names
FutureType == "FUMBLE"

\* the quick-log buttons pressed in the state machine: one that passes the
\* receiver, and the one that is rendered for some rule sets only (it passes
\* no receiver, like the other thirteen)
LoggedTypes == {"PASS_TD", "PAT_RET_2"}

\* mutant of buttonOffered: the PAT Return button is rendered for every game
buttonAlwaysOffered(s, type) == selectedGameIndex(s) # 0

\* whether the quick-log card renders a button for the type
buttonOffered(s, type) ==
  type = "PAT_RET_2" =>
    LET rs == s.games[selectedGameIndex(s)].ruleSet
    IN rs \in RuleSets /\ RULESET_CONFIG[rs].allowPatReturn

\* files the user may pick for import: a backup written elsewhere (a game
\* without ruleSet whose log holds an event of a future type by a player who
\* is not in the roster, a pass TD between two roster players and a PAT
\* return); a document whose fields are no lists; two backups merged by
\* hand, so that one game is listed twice; null; a text that is no JSON
ImportFiles ==
  {[top |-> "object",
    players |-> [isArray |-> TRUE,
                 items |-> <<[id |-> "p_x", name |-> "Bo", jersey |-> "7"],
                             [id |-> "p_y", name |-> "Cy", jersey |-> ABSENT]>>],
    games |-> [isArray |-> TRUE,
               items |-> <<[id |-> "g_x", opponent |-> "Lions",
                            dateISO |-> DateInput, ruleSet |-> ABSENT,
                            events |-> [isArray |-> TRUE,
                              items |-> <<[id |-> "e_x", type |-> FutureType,
                                           playerId |-> "ghost",
                                           receiverId |-> ABSENT],
                                          [id |-> "e_y", type |-> "PASS_TD",
                                           playerId |-> "p_y",
                                           receiverId |-> "p_x"],
                                          [id |-> "e_z", type |-> "PAT_RET_2",
                                           playerId |-> "p_y",
                                           receiverId |-> ABSENT]>>]]>>],
    ui |-> [nullish |-> FALSE, selectedGameId |-> "g_x"]],
   [top |-> "object",
    players |-> [isArray |-> FALSE, items |-> <<>>],
    games |-> [isArray |-> TRUE,
               items |-> <<[id |-> "g_y", opponent |-> "Bears",
                            dateISO |-> DateInput, ruleSet |-> "",
                            events |-> [isArray |-> FALSE, items |-> <<>>]]>>],
    ui |-> [nullish |-> TRUE, selectedGameId |-> ABSENT]],
   [top |-> "object",
    players |-> [isArray |-> TRUE,
                 items |-> <<[id |-> "p_w", name |-> "Wu", jersey |-> ABSENT]>>],
    games |-> [isArray |-> TRUE,
               items |-> <<[id |-> "g_w", opponent |-> "Rams",
                            dateISO |-> DateInput, ruleSet |-> "FARM_LEAGUE",
                            events |-> [isArray |-> TRUE,
                              items |-> <<[id |-> "e_w", type |-> "RUSH_TD",
                                           playerId |-> "p_w",
                                           receiverId |-> ABSENT]>>]],
                           [id |-> "g_w", opponent |-> "Rams",
                            dateISO |-> DateInput, ruleSet |-> "FARM_LEAGUE",
                            events |-> [isArray |-> TRUE,
                              items |-> <<[id |-> "e_w", type |-> "RUSH_TD",
                                           playerId |-> "p_w",
                                           receiverId |-> ABSENT]>>]]>>],
    ui |-> [nullish |-> FALSE, selectedGameId |-> "g_w"]],
   nonObjectDoc("null"),
   nonObjectDoc("unparseable")}

---------------------------------------------------------------------------
(* The state machine of the App component. *)

Init ==
  /\ store = loadStore(nonObjectDoc("none"))
  /\ localStorage = saveStore(store)
  /\ tab = "games"
  /\ primaryPlayerId = firstPlayerId(store)
  /\ receiverId = firstPlayerId(store)
  /\ uidCount = [p |-> 0, g |-> 0, e |-> 0, i |-> 0]
  /\ statsByPlayer = statsMemo(store)
  /\ statsCalls = 0
  /\ lastOp = [op |-> "mount", arg |-> ""]

\* the render of the page throws: the quick-log card of the game view reads
\* RULESET_HELP[selectedGame.ruleSet].pat1, and the table has the three rule
\* sets only
renderThrows(s, t) ==
  /\ t = "game"
  /\ selectedGameIndex(s) # 0
  /\ s.players # <<>>
  /\ s.games[selectedGameIndex(s)].ruleSet \notin RuleSets

\* the tab after the effects of a committed render, "unmounted" when the
\* render that follows them throws
tabAfterEffects(t, old, new) ==
  IF renderThrows(new, tabEffect(t, old, new)) THEN "unmounted"
  ELSE tabEffect(t, old, new)

\* a render after setStore(new), with the effects that follow it: saveStore,
\* the selection defaults, the switch to the game view, the stats memo; a
\* render that throws commits nothing and runs no effect
Render(new, t, op, arg) ==
  /\ store' = new
  /\ statsCalls' = statsCalls
  /\ lastOp' = [op |-> op, arg |-> arg]
  /\ IF renderThrows(new, t)
       THEN /\ tab' = "unmounted"
            /\ UNCHANGED <<localStorage, primaryPlayerId, receiverId,
                           statsByPlayer>>
       ELSE /\ localStorage' = saveStore(new)
            /\ tab' = tabAfterEffects(t, store, new)
            /\ primaryPlayerId' = selectionEffect(primaryPlayerId, new)
            /\ receiverId' = selectionEffect(receiverId, new)
            /\ statsByPlayer' = statsMemo(new)

\* the header (Export, Import) is rendered
mounted == tab # "unmounted"

\* which card of the page is rendered
rosterShown == tab = "roster"
gamesShown == tab = "games"
gameShown == tab = "game" /\ selectedGameIndex(store) # 0
quickLogShown == gameShown /\ store.players # <<>>

\* the growth of the store so far, and whether n more fit the bound
growth == uidCount.p + uidCount.g + uidCount.e + 2 * uidCount.i
mayGrow == growth + 1 <= MaxGrowth
mayImport == growth + 2 <= MaxGrowth

SetTab ==
  \E t \in {"games", "roster"} :
    /\ tab # t
    /\ tab' = t
    /\ UNCHANGED <<store, localStorage, primaryPlayerId, receiverId, uidCount,
                   statsByPlayer, statsCalls, lastOp>>

SetPrimaryPlayerId ==
  \E i \in DOMAIN store.players :
    /\ quickLogShown
    /\ primaryPlayerId # store.players[i].id
    /\ primaryPlayerId' = store.players[i].id
    /\ UNCHANGED <<store, localStorage, tab, receiverId, uidCount,
                   statsByPlayer, statsCalls, lastOp>>

SetReceiverId ==
  \E i \in DOMAIN store.players :
    /\ quickLogShown
    /\ receiverId # store.players[i].id
    /\ receiverId' = store.players[i].id
    /\ UNCHANGED <<store, localStorage, tab, primaryPlayerId, uidCount,
                   statsByPlayer, statsCalls, lastOp>>

AddPlayer ==
  \E name \in NameInputs, jersey \in JerseyInputs :
    /\ rosterShown
    /\ mayGrow
    /\ IF ~Truthy(name)
         THEN /\ lastOp' = [op |-> "addPlayer", arg |-> ""]
              /\ UNCHANGED <<store, localStorage, tab, primaryPlayerId,
                             receiverId, uidCount, statsByPlayer, statsCalls>>
         ELSE /\ uidCount' = [uidCount EXCEPT !.p = @ + 1]
              /\ Render(addPlayer(store, uid("p", uidCount.p + 1), name, jersey),
                        tab, "addPlayer", uid("p", uidCount.p + 1))

DeletePlayer ==
  \E i \in DOMAIN store.players :
    /\ rosterShown
    /\ Render(deletePlayer(store, store.players[i].id), tab,
              "deletePlayer", store.players[i].id)
    /\ UNCHANGED uidCount

AddGame ==
  \E opp \in OpponentInputs, rs \in RuleSets :
    /\ gamesShown
    /\ mayGrow
    /\ IF ~Truthy(opp)
         THEN /\ lastOp' = [op |-> "addGame", arg |-> ""]
              /\ UNCHANGED <<store, localStorage, tab, primaryPlayerId,
                             receiverId, uidCount, statsByPlayer, statsCalls>>
         ELSE /\ uidCount' = [uidCount EXCEPT !.g = @ + 1]
              /\ Render(addGame(store, uid("g", uidCount.g + 1), opp,
                                DateInput, rs),
                        tab, "addGame", uid("g", uidCount.g + 1))

OpenGame ==
  \E i \in DOMAIN store.games :
    /\ gamesShown
    /\ Render(openGame(store, store.games[i].id), tab,
              "openGame", store.games[i].id)
    /\ UNCHANGED uidCount

DeleteGame ==
  \E i \in DOMAIN store.games :
    /\ gamesShown
    /\ Render(deleteGame(store, store.games[i].id), "games",
              "deleteGame", store.games[i].id)
    /\ UNCHANGED uidCount

PushEvent ==
  \E type \in LoggedTypes :
    /\ quickLogShown
    /\ buttonOffered(store, type)
    /\ mayGrow
    /\ uidCount' = [uidCount EXCEPT !.e = @ + 1]
    /\ Render(pushEvent(store, uid("e", uidCount.e + 1), type, primaryPlayerId,
                        IF type \in {"PASS_COMP", "PASS_TD"} THEN receiverId
                        ELSE UNDEF),
              tab, "pushEvent", uid("e", uidCount.e + 1))

RemoveEvent ==
  /\ gameShown
  /\ \E i \in DOMAIN store.games[selectedGameIndex(store)].events :
       LET id == store.games[selectedGameIndex(store)].events[i].id
       IN Render(removeEvent(store, id), tab, "removeEvent", id)
  /\ UNCHANGED uidCount

ClearGameEvents ==
  /\ gameShown
  /\ store.games[selectedGameIndex(store)].events # <<>>
  /\ Render(clearGameEvents(store), tab, "clearGameEvents", "")
  /\ UNCHANGED uidCount

\* the Import control with a file picked among ImportFiles
ImportJSON ==
  \E file \in ImportFiles :
    /\ mounted
    /\ mayImport
    /\ uidCount' = [uidCount EXCEPT !.i = @ + 1]
    /\ Render(importJSON(store, file), tab, "importJSON", file.top)

\* Export, then Import of the file just downloaded
ExportImport ==
  /\ mounted
  /\ Render(importJSON(store, exportJSON(store)), tab, "exportImport", "")
  /\ UNCHANGED uidCount

\* the page is loaded again: every useState starts over from loadStore()
Reload ==
  LET new == loadStore(localStorage)
  IN /\ store' = new
     /\ localStorage' = saveStore(new)
     /\ tab' = tabAfterEffects("games", emptyStore, new)
     /\ primaryPlayerId' = firstPlayerId(new)
     /\ receiverId' = firstPlayerId(new)
     /\ statsByPlayer' = statsMemo(new)
     /\ lastOp' = [op |-> "reload", arg |-> ""]
     /\ UNCHANGED <<uidCount, statsCalls>>

\* the transitions of the user interface, without import, export and reload
NextUI ==
  \/ SetTab
  \/ SetPrimaryPlayerId
  \/ SetReceiverId
  \/ AddPlayer
  \/ DeletePlayer
  \/ AddGame
  \/ OpenGame
  \/ DeleteGame
  \/ PushEvent
  \/ RemoveEvent
  \/ ClearGameEvents

Next ==
  \/ NextUI
  \/ ImportJSON
  \/ ExportImport
  \/ Reload

Spec == Init /\ [][Next]_vars

SpecUI == Init /\ [][NextUI]_vars

---------------------------------------------------------------------------
(* computeStats called on demand on a roster and an event log drawn from   *)
(* bounded sets: the store holds the roster and one selected game with the *)
(* log.                                                                    *)

\* ids of the statistics inputs: two players, and a name every object
\* inherits from Object.prototype
StatIds == {"A", "B", "constructor"}
StatRosters ==
  {<<>>, <<"A">>, <<"A", "B">>, <<"B", "A">>}

StatEvents ==
  [id : {"e"}, type : {"PASS_COMP", "PASS_TD"}, playerId : StatIds,
   receiverId : StatIds \cup {UNDEF}]
  \cup [id : {"e"}, type : (EventTypes \ {"PASS_COMP", "PASS_TD"})
                            \cup {FutureType},
        playerId : StatIds, receiverId : {UNDEF}]

StatLogs == UNION {[1..n -> StatEvents] : n \in 0..MaxLog}

StatsInit ==
  /\ \E roster \in StatRosters, log \in StatLogs :
       store = [players |-> [i \in DOMAIN roster |->
                               [id |-> roster[i], name |-> "N",
                                jersey |-> UNDEF]],
                games |-> <<[id |-> "g", opponent |-> "Tigers",
                             dateISO |-> DateInput, ruleSet |-> "NFL_FLAG",
                             events |-> log]>>,
                ui |-> [selectedGameId |-> "g"]]
  /\ localStorage = saveStore(store)
  /\ tab = "game"
  /\ primaryPlayerId = firstPlayerId(store)
  /\ receiverId = firstPlayerId(store)
  /\ uidCount = [p |-> 0, g |-> 0, e |-> 0, i |-> 0]
  /\ statsByPlayer = EmptyObject
  /\ statsCalls = 0
  /\ lastOp = [op |-> "mount", arg |-> ""]

\* one evaluation of statsByPlayer for the selected game
ComputeStatsCall ==
  /\ statsCalls < MaxCalls
  /\ selectedGameIndex(store) # 0
  /\ statsByPlayer' = statsOfGame(store.players,
                                  store.games[selectedGameIndex(store)])
  /\ statsCalls' = statsCalls + 1
  /\ lastOp' = [op |-> "computeStats", arg |-> ""]
  /\ UNCHANGED <<store, localStorage, tab, primaryPlayerId, receiverId,
                 uidCount>>

NextStats == ComputeStatsCall

SpecStats == StatsInit /\ [][NextStats]_vars

\* the inputs of the call in SpecStats
rosterIn == store.players
logIn == store.games[1].events
rosterIds == {rosterIn[i].id : i \in DOMAIN rosterIn}

---------------------------------------------------------------------------
(* The document boundary on documents drawn from a bounded set: the page   *)
(* is loaded with any of them in storage, and any of them is imported.     *)

\* ruleSet values of a document's game: missing, the empty string, a tag
\* that is no rule set, a rule set
DocRuleSets == {ABSENT, "", "BOGUS", "FARM_LEAGUE"}

DocPlayers ==
  {[isArray |-> FALSE, items |-> <<>>],
   [isArray |-> TRUE,
    items |-> <<[id |-> "p_d", name |-> "Di", jersey |-> ABSENT]>>]}

DocEvents ==
  {[isArray |-> FALSE, items |-> <<>>],
   [isArray |-> TRUE,
    items |-> <<[id |-> "e_d", type |-> "RUSH_TD", playerId |-> "p_d",
                 receiverId |-> ABSENT]>>]}

DocGames ==
  {[isArray |-> FALSE, items |-> <<>>]}
  \cup {[isArray |-> TRUE,
         items |-> <<[id |-> "g_d", opponent |-> "Owls", dateISO |-> DateInput,
                      ruleSet |-> rs, events |-> ev]>>] :
           rs \in DocRuleSets, ev \in DocEvents}

DocUis ==
  {[nullish |-> TRUE, selectedGameId |-> ABSENT],
   [nullish |-> FALSE, selectedGameId |-> "g_d"]}

\* texts that parse to an object, to null, to a number or a string, and
\* texts that do not parse
Documents ==
  [top : {"object"}, players : DocPlayers, games : DocGames, ui : DocUis]
  \cup {nonObjectDoc("null"), nonObjectDoc("scalar"),
        nonObjectDoc("unparseable")}

\* the page loaded with a document in storage: useState(() => loadStore()),
\* the first render on the Games tab, then the effects
DocsInit ==
  /\ \E d \in Documents \cup {nonObjectDoc("none")} :
       /\ store = loadStore(d)
       /\ lastOp = [op |-> "loadStore", arg |-> d]
  /\ localStorage = saveStore(store)
  /\ tab = tabAfterEffects("games", emptyStore, store)
  /\ primaryPlayerId = firstPlayerId(store)
  /\ receiverId = firstPlayerId(store)
  /\ uidCount = [p |-> 0, g |-> 0, e |-> 0, i |-> 0]
  /\ statsByPlayer = statsMemo(store)
  /\ statsCalls = 0

\* the Import control with a file picked among Documents
ImportDocument ==
  \E file \in Documents :
    /\ mounted
    /\ Render(importJSON(store, file), tab, "importJSON", file)
    /\ UNCHANGED uidCount

NextDocs ==
  \/ SetTab
  \/ ImportDocument
  \/ Reload

SpecDocs == DocsInit /\ [][NextDocs]_vars

---------------------------------------------------------------------------
(* The delta table of the specification (section 4.1), and sums over it.   *)

tableRow(fields, pts) ==
  [f \in StatFields |->
     IF f = "points" THEN pts ELSE IF f \in fields THEN 1 ELSE 0]

primaryDelta(type) ==
  CASE type = "PASS_ATT" -> tableRow({"passAtt"}, 0)
    [] type = "PASS_COMP" -> tableRow({"passAtt", "passComp"}, 0)
    [] type = "PASS_TD" -> tableRow({"passAtt", "passComp", "passTD"}, 6)
    [] type = "INT_THROWN" -> tableRow({"passAtt", "intThrown"}, 0)
    [] type = "RUSH_ATT" -> tableRow({"rushAtt"}, 0)
    [] type = "RUSH_TD" -> tableRow({"rushAtt", "rushTD"}, 6)
    [] type = "REC" -> tableRow({"rec"}, 0)
    [] type = "REC_TD" -> tableRow({"rec", "recTD"}, 6)
    [] type = "DEF_INT" -> tableRow({"defInt"}, 0)
    [] type = "SACK" -> tableRow({"sacks"}, 0)
    [] type = "FLAG_PULL" -> tableRow({"flagPulls"}, 0)
    [] type = "DEF_TD" -> tableRow({"defTD"}, 6)
    [] type = "XP_1" -> tableRow({"xp1"}, 1)
    [] type = "XP_2" -> tableRow({"xp2"}, 2)
    [] type = "PAT_RET_2" -> tableRow({"patRet2"}, 2)
    [] OTHER -> tableRow({}, 0)

secondaryDelta(type) ==
  CASE type = "PASS_COMP" -> tableRow({"rec"}, 0)
    [] type = "PASS_TD" -> tableRow({"rec", "recTD"}, 6)
    [] OTHER -> tableRow({}, 0)

receiverPresent(e) == e.receiverId \notin {UNDEF, ABSENT}

RECURSIVE SumSeq(_)
SumSeq(q) == IF q = <<>> THEN 0 ELSE Head(q) + SumSeq(Tail(q))

\* what the table gives player id over the log
tableSum(id, log) ==
  [f \in StatFields |->
     SumSeq([i \in DOMAIN log |->
               (IF log[i].playerId = id THEN primaryDelta(log[i].type)[f]
                ELSE 0)
               + (IF receiverPresent(log[i]) /\ log[i].receiverId = id
                    THEN secondaryDelta(log[i].type)[f] ELSE 0)])]

\* the ids the table credits: every playerId, and the receiver of a pass
creditedIds(log) ==
  {log[i].playerId : i \in DOMAIN log}
  \cup {log[i].receiverId :
          i \in {j \in DOMAIN log : /\ log[j].type \in {"PASS_COMP", "PASS_TD"}
                                    /\ receiverPresent(log[j])}}

\* the points the table declares for one event
declaredPoints(e) ==
  primaryDelta(e.type)["points"]
  + (IF receiverPresent(e) THEN secondaryDelta(e.type)["points"] ELSE 0)

RECURSIVE totalPoints(_)
\* the points summed over the buckets of a result
totalPoints(stats) ==
  IF DOMAIN stats = {} THEN 0
  ELSE LET id == CHOOSE x \in DOMAIN stats : TRUE
       IN stats[id]["points"]
          + totalPoints([x \in DOMAIN stats \ {id} |-> stats[x]])

\* the point-wise sum of two results
plusStats(a, b) ==
  [id \in DOMAIN a \cup DOMAIN b |->
     [f \in StatFields |->
        (IF id \in DOMAIN a THEN a[id][f] ELSE 0)
        + (IF id \in DOMAIN b THEN b[id][f] ELSE 0)]]

\* the rearrangements of a sequence
permutationsOf(q) ==
  {[i \in DOMAIN q |-> q[f[i]]] :
     f \in {g \in [DOMAIN q -> DOMAIN q] :
              \A i, j \in DOMAIN q : g[i] = g[j] => i = j}}

\* a sequence without its i-th element
without(q, i) == SubSeq(q, 1, i - 1) \o SubSeq(q, i + 1, Len(q))

countOf(log, type, id) ==
  Cardinality({i \in DOMAIN log : log[i].type = type /\ log[i].playerId = id})

statsReturned == statsCalls >= 1

---------------------------------------------------------------------------
(* Claims about computeStats (under SpecStats). *)

\* C1 (as claimed): for a log of enumerated event types, every roster player
\* and every player the table credits has a bucket holding exactly the sum of
\* the table's deltas over the log: the primary effect for playerId, the
\* secondary effect for a present receiverId.
C1_StatsAreTableSums ==
  (statsReturned /\ \A i \in DOMAIN logIn : logIn[i].type \in EventTypes)
  => \A id \in rosterIds \cup creditedIds(logIn) :
       /\ id \in DOMAIN statsByPlayer
       /\ statsByPlayer[id] = tableSum(id, logIn)

\* C2 (as claimed): the points summed over all returned buckets equal the
\* points the table declares summed over the events of the log.
C2_PointsConserved ==
  statsReturned
  => totalPoints(statsByPlayer)
       = SumSeq([i \in DOMAIN logIn |-> declaredPoints(logIn[i])])

\* C3: every rearrangement of the log gives the same buckets with the same
\* counters, and the result for a log split in two anywhere is the
\* point-wise sum of the results for the two parts.
C3_OrderIndependentAdditive ==
  statsReturned
  => /\ \A q \in permutationsOf(logIn) :
          computeStats(rosterIn, q) = statsByPlayer
     /\ \A k \in 0..Len(logIn) :
          plusStats(computeStats(rosterIn, SubSeq(logIn, 1, k)),
                    computeStats(rosterIn, SubSeq(logIn, k + 1, Len(logIn))))
            = statsByPlayer

\* C3 witness: the scenario [PASS_TD(A, receiver B), XP_2(A)] has been
\* aggregated: A has 8 points, B has 6
C3_Witness ==
  /\ statsReturned
  /\ Len(logIn) = 2
  /\ logIn[1] = [id |-> "e", type |-> "PASS_TD", playerId |-> "A",
                 receiverId |-> "B"]
  /\ logIn[2].type = "XP_2" /\ logIn[2].playerId = "A"
  /\ rosterIds = {"A", "B"}
  /\ statsByPlayer["A"]["points"] = 8
  /\ statsByPlayer["B"]["points"] = 6

C9_DanglingIdsGetBuckets ==
  statsReturned
  => /\ \A id \in rosterIds :
          /\ id \in DOMAIN statsByPlayer
          /\ id \notin creditedIds(logIn) => statsByPlayer[id] = emptyStats
     /\ \A id \in creditedIds(logIn) \ rosterIds :
          /\ id \in DOMAIN statsByPlayer
          /\ statsByPlayer[id] = tableSum(id, logIn)

\* the points the scoring counters of a bucket account for
pointsOfCounters(b) ==
  6 * (b["passTD"] + b["rushTD"] + b["recTD"] + b["defTD"])
  + b["xp1"] + 2 * b["xp2"] + 2 * b["patRet2"]

\* C14: in every bucket computeStats returns, points is what the scoring
\* counters of the same bucket give: 6 * (passTD + rushTD + recTD + defTD)
\* + xp1 + 2 * xp2 + 2 * patRet2 (for the logs of enumerated types the claim
\* speaks of, and equally with events of an unknown type among them).
C14_PointsFromCounters ==
  statsReturned
  => \A id \in DOMAIN statsByPlayer :
       statsByPlayer[id]["points"] = pointsOfCounters(statsByPlayer[id])

\* C14 witness: a pass TD thrown and caught by the same player A and a
\* 2-point conversion by A have been aggregated: one bucket with passTD 1,
\* recTD 1, xp2 1 and 14 points
C14_Witness ==
  /\ statsReturned
  /\ Len(logIn) = 2
  /\ \A i \in DOMAIN logIn : logIn[i].type \in EventTypes
  /\ "A" \in DOMAIN statsByPlayer
  /\ statsByPlayer["A"]["passTD"] = 1
  /\ statsByPlayer["A"]["recTD"] = 1
  /\ statsByPlayer["A"]["xp2"] = 1
  /\ statsByPlayer["A"]["points"] = 14

---------------------------------------------------------------------------
(* Claims about the store transitions (under Spec and SpecUI). *)

playerIds(s) == {s.players[i].id : i \in DOMAIN s.players}

mentions(e, id) == e.playerId = id \/ Read(e.receiverId) = id

\* deletePlayer(id) is the step being taken
deletePlayerStep(id) ==
  /\ id \in playerIds(store)
  /\ lastOp' = [op |-> "deletePlayer", arg |-> id]

\* C5: after deletePlayer(id) the roster has no player id, no game holds an
\* event whose playerId or receiverId is id, each game's log is its log
\* before without exactly the events that mention id (the others kept in
\* their order), and computeStats of the roster and any game's log has no
\* bucket for id.
C5_DeletePlayerCascades ==
  [][\A id \in playerIds(store) :
       deletePlayerStep(id)
       => /\ id \notin playerIds(store')
          /\ Len(store'.games) = Len(store.games)
          /\ \A i \in DOMAIN store'.games :
               /\ \A k \in DOMAIN store'.games[i].events :
                    ~mentions(store'.games[i].events[k], id)
               /\ store'.games[i].events
                    = SelectSeq(store.games[i].events,
                                LAMBDA e : ~mentions(e, id))
               /\ id \notin DOMAIN computeStats(store'.players,
                                                store'.games[i].events)]_vars

\* C5 witness: deletePlayer("p_x") has acted on the imported backup: the
\* pass TD caught by p_x is gone, the two other events remain in their order
C5_Witness ==
  /\ lastOp = [op |-> "deletePlayer", arg |-> "p_x"]
  /\ playerIds(store) = {"p_y"}
  /\ Len(store.games) = 1
  /\ Len(store.games[1].events) = 2
  /\ store.games[1].events[1].id = "e_x"
  /\ store.games[1].events[2].id = "e_z"

\* C6 (as claimed): in every state reached through the user interface alone,
\* every event's playerId, and its receiverId when present, is the id of a
\* player of the roster.
C6_EventsReferenceRoster ==
  \A i \in DOMAIN store.games :
    \A k \in DOMAIN store.games[i].events :
      LET e == store.games[i].events[k]
      IN /\ e.playerId \in playerIds(store)
         /\ receiverPresent(e) => e.receiverId \in playerIds(store)

\* two values of an optional property read the same
sameRead(a, b) == Read(a) = Read(b)

\* two stores are equivalent: the same players, games, events and selection
\* in the same order, property by property as read
storeEquiv(a, b) ==
  /\ Len(a.players) = Len(b.players)
  /\ \A i \in DOMAIN a.players :
       /\ a.players[i].id = b.players[i].id
       /\ a.players[i].name = b.players[i].name
       /\ sameRead(a.players[i].jersey, b.players[i].jersey)
  /\ Len(a.games) = Len(b.games)
  /\ \A i \in DOMAIN a.games :
       /\ a.games[i].id = b.games[i].id
       /\ a.games[i].opponent = b.games[i].opponent
       /\ a.games[i].dateISO = b.games[i].dateISO
       /\ a.games[i].ruleSet = b.games[i].ruleSet
       /\ Len(a.games[i].events) = Len(b.games[i].events)
       /\ \A k \in DOMAIN a.games[i].events :
            /\ a.games[i].events[k].id = b.games[i].events[k].id
            /\ a.games[i].events[k].type = b.games[i].events[k].type
            /\ a.games[i].events[k].playerId = b.games[i].events[k].playerId
            /\ sameRead(a.games[i].events[k].receiverId,
                        b.games[i].events[k].receiverId)
  /\ sameRead(a.ui.selectedGameId, b.ui.selectedGameId)

\* C7: in every reachable state, importing the export of the store, and
\* loading what saveStore saved, give a store equivalent to the store, the
\* saved document is the one of the store, and normalising the re-imported
\* store once more changes nothing.
C7_RoundTrip ==
  LET again == importJSON(store, exportJSON(store))
  IN /\ ~importThrows(exportJSON(store))
     /\ storeEquiv(again, store)
     /\ localStorage = saveStore(store)
     /\ storeEquiv(loadStore(localStorage), store)
     /\ importJSON(again, exportJSON(again)) = again
     /\ loadStore(saveStore(again)) = again

\* C7 witness: a store built in the interface (a player without jersey, a
\* Farm League game, a PAT return without receiver) has been exported and
\* imported again: the undefined properties are now absent
C7_Witness ==
  /\ lastOp.op = "exportImport"
  /\ Len(store.players) = 1 /\ store.players[1].jersey = ABSENT
  /\ Len(store.games) = 1 /\ store.games[1].ruleSet = "FARM_LEAGUE"
  /\ Len(store.games[1].events) = 1
  /\ store.games[1].events[1].type = "PAT_RET_2"
  /\ store.games[1].events[1].receiverId = ABSENT
  /\ store.ui.selectedGameId = store.games[1].id

unknownType(e) == e.type \notin EventTypes

selectedLog == store.games[selectedGameIndex(store)].events

\* C10 (as claimed): with a game selected, the displayed statistics are the
\* statistics of the log without any one event of unknown type: the same
\* buckets, the same counters.
C10_UnknownTypeIsNoOp ==
  selectedGameIndex(store) # 0
  => \A k \in DOMAIN selectedLog :
       unknownType(selectedLog[k])
       => statsByPlayer = computeStats(store.players, without(selectedLog, k))

\* the aggregation part of C10 as amended
unknownTypeAddsNoCount ==
  selectedGameIndex(store) # 0
  => \A k \in DOMAIN selectedLog :
       unknownType(selectedLog[k])
       => LET base == computeStats(store.players, without(selectedLog, k))
          IN /\ \A id \in DOMAIN base :
                  id \in DOMAIN statsByPlayer /\ statsByPlayer[id] = base[id]
             /\ \A id \in DOMAIN statsByPlayer \ DOMAIN base :
                  id = selectedLog[k].playerId /\ statsByPlayer[id] = emptyStats

\* import and export copy an event of unknown type as it is
unknownTypeCopied ==
  /\ \A file \in ImportFiles :
       (~importThrows(file) /\ file.games.isArray)
       => \A i \in DOMAIN file.games.items :
            file.games.items[i].events.isArray
            => \A k \in DOMAIN file.games.items[i].events.items :
                 LET e == file.games.items[i].events.items[k]
                 IN unknownType(e)
                    => /\ k \in DOMAIN importJSON(store, file).games[i].events
                       /\ importJSON(store, file).games[i].events[k] = e
  /\ \A i \in DOMAIN store.games :
       \A k \in DOMAIN store.games[i].events :
         unknownType(store.games[i].events[k])
         => exportJSON(store).games.items[i].events.items[k]
              = store.games[i].events[k]

\* the step removes event e of the game with id gid on purpose
removalOf(e, gid) ==
  \/ lastOp'.op = "deletePlayer" /\ mentions(e, lastOp'.arg)
  \/ lastOp'.op = "removeEvent" /\ e.id = lastOp'.arg
  \/ lastOp'.op = "clearGameEvents"
  \/ lastOp'.op = "deleteGame" /\ gid = lastOp'.arg
  \/ lastOp'.op = "importJSON"

\* a step that is no removal keeps an event of unknown type in its game
unknownTypeKept ==
  \A i \in DOMAIN store.games :
    \A k \in DOMAIN store.games[i].events :
      LET e == store.games[i].events[k]
      IN (unknownType(e) /\ ~removalOf(e, store.games[i].id))
         => \E j \in DOMAIN store'.games :
              /\ store'.games[j].id = store.games[i].id
              /\ \E m \in DOMAIN store'.games[j].events :
                   store'.games[j].events[m] = e

\* C10 (amended): an event of unknown type changes no counter: the displayed
\* statistics have the buckets of the log without it, with the same counters,
\* and at most one more bucket, all-zero, for its playerId; import and export
\* copy the event as it is, and every step that does not remove it keeps it
\* in its game.
C10_UnknownTypeAddsNoCount ==
  /\ [](unknownTypeAddsNoCount /\ unknownTypeCopied)
  /\ [][unknownTypeKept]_vars

\* C10 witness: the imported backup is displayed: its log holds an event of
\* unknown type by "ghost", who is in no roster and has an all-zero bucket
C10_Witness ==
  /\ lastOp.op = "importJSON"
  /\ selectedGameIndex(store) # 0
  /\ \E k \in DOMAIN selectedLog :
       unknownType(selectedLog[k]) /\ selectedLog[k].playerId = "ghost"
  /\ "ghost" \notin playerIds(store)
  /\ "ghost" \in DOMAIN statsByPlayer
  /\ statsByPlayer["ghost"] = emptyStats

---------------------------------------------------------------------------
(* Claims about the document boundary (under SpecDocs). *)

\* the store was last set by importJSON or loadStore of a document whose
\* top-level shape is one of tops
afterDocument(tops) ==
  /\ lastOp.op \in {"importJSON", "loadStore"}
  /\ lastOp.arg.top \in tops

\* C11 (as claimed): after importJSON or loadStore of a document whose top
\* level is an object, players and games are lists, empty when the document's
\* are no lists, every game's events is a list, empty when the document's is
\* none, and every game's ruleSet is one of the three rule sets, NFL_FLAG
\* when the document's ruleSet is missing or is no rule set.
C11_ImportedStoreWellFormed ==
  afterDocument({"object"})
  => LET d == lastOp.arg
     IN /\ ~d.players.isArray => store.players = <<>>
        /\ d.players.isArray => store.players = d.players.items
        /\ ~d.games.isArray => store.games = <<>>
        /\ d.games.isArray
             => /\ Len(store.games) = Len(d.games.items)
                /\ \A i \in DOMAIN store.games :
                     LET g == d.games.items[i]
                     IN /\ ~g.events.isArray => store.games[i].events = <<>>
                        /\ g.events.isArray
                             => store.games[i].events = g.events.items
                        /\ store.games[i].ruleSet \in RuleSets
                        /\ Read(g.ruleSet) \notin RuleSets
                             => store.games[i].ruleSet = "NFL_FLAG"
                        /\ Read(g.ruleSet) \in RuleSets
                             => store.games[i].ruleSet = g.ruleSet

\* C12 (as claimed): importJSON and loadStore of a document that is no
\* object (null, a scalar, a text that does not parse) raise nothing and
\* leave the empty store.
C12_UnrecognizedShapeGivesEmptyStore ==
  afterDocument({"null", "scalar", "unparseable"})
  => /\ store = emptyStore
     /\ lastOp.op = "importJSON" => ~importThrows(lastOp.arg)

---------------------------------------------------------------------------
(* Frame claims about the handlers (under Spec). *)

\* the handlers of the interface that set the store
UIHandlers ==
  {"addPlayer", "deletePlayer", "addGame", "openGame", "deleteGame",
   "pushEvent", "removeEvent", "clearGameEvents"}

gameIds(s) == {s.games[i].id : i \in DOMAIN s.games}

\* C13: a step of addPlayer, deletePlayer, addGame, openGame, deleteGame,
\* pushEvent, removeEvent or clearGameEvents leaves the ruleSet, the id, the
\* opponent and the date of every game that exists before and after it as
\* they were; a game addGame creates is bound to the rule set picked.
C13_RuleSetFixed ==
  [][lastOp'.op \in UIHandlers
     => /\ \A i \in DOMAIN store.games :
             \A j \in DOMAIN store'.games :
               store'.games[j].id = store.games[i].id
               => /\ store'.games[j].ruleSet = store.games[i].ruleSet
                  /\ store'.games[j].opponent = store.games[i].opponent
                  /\ store'.games[j].dateISO = store.games[i].dateISO
        /\ \A j \in DOMAIN store'.games :
             store'.games[j].id \notin gameIds(store)
             => /\ lastOp'.op = "addGame"
                /\ store'.games[j].id = lastOp'.arg
                /\ store'.games[j].ruleSet \in RuleSets]_vars

\* C13 witness: a Farm League game was created, then a Next Level game, and
\* the older game is open again and has just been logged to: both rule sets
\* are as picked
C13_Witness ==
  /\ lastOp.op = "pushEvent"
  /\ Len(store.games) = 2
  /\ store.games[1].id = "g_2" /\ store.games[1].ruleSet = "NEXT_LEVEL"
  /\ store.games[2].id = "g_1" /\ store.games[2].ruleSet = "FARM_LEAGUE"
  /\ Len(store.games[2].events) = 1

---------------------------------------------------------------------------
(* Claims about the states the interface reaches (under SpecUI). *)

\* C15: in every state reached through the interface alone, a game whose log
\* holds a PAT_RET_2 event is bound to a rule set whose allowPatReturn is
\* true, which is FARM_LEAGUE only.
C15_PatReturnGated ==
  \A i \in DOMAIN store.games :
    \A k \in DOMAIN store.games[i].events :
      store.games[i].events[k].type = "PAT_RET_2"
      => /\ store.games[i].ruleSet \in RuleSets
         /\ RULESET_CONFIG[store.games[i].ruleSet].allowPatReturn
         /\ store.games[i].ruleSet = "FARM_LEAGUE"

\* C15 witness: a PAT return has been logged in a Farm League game while an
\* NFL Flag game, created after it, is in the list with an empty log
C15_Witness ==
  /\ Len(store.games) = 2
  /\ store.games[1].ruleSet = "NFL_FLAG" /\ store.games[1].events = <<>>
  /\ store.games[2].ruleSet = "FARM_LEAGUE"
  /\ Len(store.games[2].events) = 1
  /\ store.games[2].events[1].type = "PAT_RET_2"

---------------------------------------------------------------------------
(* Frame claims about the event log (under Spec). *)

\* the step is a pushEvent that got past its two guards: uid("e") was called
pushEventStep == uidCount'.e = uidCount.e + 1

\* the event a quick-log button of the type builds in the current render
eventBuilt(id, type) ==
  [id |-> id, type |-> type, playerId |-> primaryPlayerId,
   receiverId |-> IF type \in {"PASS_COMP", "PASS_TD"} THEN receiverId
                  ELSE UNDEF]

\* C16 (as claimed): a pushEvent with a game selected and a primary player
\* chosen puts the new event (the given type, playerId = primaryPlayerId) in
\* front of the selected game's log, the events already there unchanged and
\* in their order, and changes nothing else: not the roster, not the
\* selection, not any other game; with no game selected, or with an empty
\* primaryPlayerId, pushEvent leaves the store as it is.
C16_PushEventAppendsOne ==
  [][/\ pushEventStep
        => LET k == selectedGameIndex(store)
           IN /\ k # 0 /\ Truthy(primaryPlayerId)
              /\ store'.players = store.players
              /\ store'.ui = store.ui
              /\ Len(store'.games) = Len(store.games)
              /\ \E type \in EventTypes :
                   store'.games[k] =
                     [store.games[k] EXCEPT !.events =
                        <<eventBuilt(lastOp'.arg, type)>> \o @]
              /\ \A i \in DOMAIN store.games \ {k} :
                   store'.games[i] = store.games[i]
     /\ \A type \in EventTypes :
          /\ pushEvent(store, "e_new", type, "", UNDEF) = store
          /\ selectedGameIndex(store) = 0
               => pushEvent(store, "e_new", type, primaryPlayerId, UNDEF)
                    = store]_vars

\* the step is a removeEvent / a clearGameEvents that set the store
removeEventStep == lastOp'.op = "removeEvent" /\ store' # store
clearGameEventsStep == lastOp'.op = "clearGameEvents" /\ store' # store

\* C17 (as claimed): removeEvent(eventId) takes exactly the event with that
\* id out of the selected game's log and keeps the others in their order,
\* clearGameEvents empties the selected game's log, and both leave the
\* roster, the selection, the other fields of the selected game and every
\* other game as they were, also when another game holds an event with the
\* same id; with no game selected both leave the store as it is.
C17_RemovalTouchesSelectedLog ==
  [][LET k == selectedGameIndex(store)
     IN /\ removeEventStep
             => /\ k # 0
                /\ store'.players = store.players
                /\ store'.ui = store.ui
                /\ Len(store'.games) = Len(store.games)
                /\ store'.games[k] =
                     [store.games[k] EXCEPT !.events =
                        SelectSeq(@, LAMBDA e : e.id # lastOp'.arg)]
                /\ Len(store'.games[k].events)
                     = Len(store.games[k].events) - 1
                /\ \A i \in DOMAIN store.games \ {k} :
                     store'.games[i] = store.games[i]
        /\ clearGameEventsStep
             => /\ k # 0
                /\ store'.players = store.players
                /\ store'.ui = store.ui
                /\ Len(store'.games) = Len(store.games)
                /\ store'.games[k] = [store.games[k] EXCEPT !.events = <<>>]
                /\ \A i \in DOMAIN store.games \ {k} :
                     store'.games[i] = store.games[i]
        /\ k = 0
             => /\ clearGameEvents(store) = store
                /\ \A id \in {"e_1", "e_x", "e_w"} :
                     removeEvent(store, id) = store]_vars

---------------------------------------------------------------------------
(* The selection and the list of games (under SpecUI). *)

\* ui.selectedGameId is unset or names a game of the list
selectionValid ==
  \/ Read(store.ui.selectedGameId) = UNDEF
  \/ Read(store.ui.selectedGameId) \in gameIds(store)

\* the step is an addGame that got past its guard: uid("g") was called
addGameStep == uidCount'.g = uidCount.g + 1

\* the step is deleteGame of a game of the list
deleteGameStep ==
  lastOp'.op = "deleteGame" /\ lastOp'.arg \in gameIds(store)

\* C18: in every state reached through the interface alone,
\* ui.selectedGameId is unset or the id of a game in store.games; addGame
\* puts the new game, with an empty log, at the head of the list and selects
\* it; deleteGame(id) removes the game with its log, unsets the selection
\* when that game was selected and keeps it otherwise, and leaves the roster
\* and every other game as they were.
C18_SelectionValid ==
  /\ []selectionValid
  /\ [][/\ addGameStep
            => /\ store'.games # <<>>
               /\ Head(store'.games).id = lastOp'.arg
               /\ Head(store'.games).events = <<>>
               /\ Head(store'.games).id \notin gameIds(store)
               /\ Tail(store'.games) = store.games
               /\ store'.ui.selectedGameId = lastOp'.arg
               /\ store'.players = store.players
        /\ deleteGameStep
            => /\ lastOp'.arg \notin gameIds(store')
               /\ store'.games
                    = SelectSeq(store.games, LAMBDA g : g.id # lastOp'.arg)
               /\ Len(store'.games) = Len(store.games) - 1
               /\ Read(store'.ui.selectedGameId)
                    = IF Read(store.ui.selectedGameId) = lastOp'.arg THEN UNDEF
                      ELSE Read(store.ui.selectedGameId)
               /\ store'.players = store.players]_vars

\* C18 witness: of two games the selected one, which had an event in its
\* log, has been deleted: the other game is left and nothing is selected
C18_Witness ==
  /\ lastOp = [op |-> "deleteGame", arg |-> "g_2"]
  /\ uidCount.e = 1
  /\ Len(store.games) = 1
  /\ store.games[1].id = "g_1" /\ store.games[1].events = <<>>
  /\ Read(store.ui.selectedGameId) = UNDEF

============================================================================
